---- MODULE Spec2Model ----
(***************************************************************************)
(* Reader pipeline of Infinite-Reader: the host screen (ReaderScreen) that *)
(* fetches the document bytes and reflects the surface's events, and the   *)
(* render surface (the script inside the WebView) that decodes the         *)
(* document, renders its pages one canvas below the other, records the     *)
(* page boundaries and tracks the page under the viewport centre.          *)
(*                                                                         *)
(* Three reader variants are modelled:                                     *)
(*   "push"   src/client/screens/ReaderScreen.tsx - bytes are posted to    *)
(*            the surface with a loadPdf message                           *)
(*   "native" src/unnamed/part_000 NativePDFViewer - bytes embedded in the *)
(*            page, events over ReactNativeWebView.postMessage             *)
(*   "web"    src/unnamed/part_000 WebPDFViewer - bytes embedded in an     *)
(*            iframe, events over parent.postMessage                       *)
(*                                                                         *)
(* The host's chrome (overlay header with its hide timers), the ways of    *)
(* leaving the reader and the write of the reading progress are modelled   *)
(* on top of the pipeline, and the web app (src/web) next to it.  The       *)
(* specifications share the variables:                                     *)
(*   Spec          the pipeline of one reader session                      *)
(*   SpecLive      the pipeline under fairness                             *)
(*   SpecTheme     the pipeline with a theme change of the web viewer      *)
(*   SpecChannel   the pipeline with a missing bridge and foreign messages *)
(*   SpecSession   the session from opening to unmounting, with the store  *)
(*   SpecControls  the chrome and its timers in real time                  *)
(*   SpecWeb       the web app: extraction, themes, font size              *)
(*   SpecScroll    the two scroll handlers side by side on one list        *)
(*                                                                         *)
(* Vertical coordinates are integers (layout units).  The probe point      *)
(* window.scrollY + window.innerHeight / 2 may be a half unit, so every    *)
(* comparison against it is made on doubled values.                        *)
(***************************************************************************)
EXTENDS Integers, Sequences, FiniteSets, TLC

\* ---------------------------------------------------------------- bounds
MaxPages == 2
MaxHeight == 2
TopPad == 2
InnerHeight == 2
MaxScroll == 4
MaxQueue == 2
MaxWrites == 2
MaxThemeChanges == 1
MaxTimers == 3
Quantum == 300

Variants == {"push", "native", "web"}

\* Durations of the chrome, in ms: the idle period before the auto-hide, the
\* fade-out (also the delay of the removal timer) and the fade-in.
HideDelay == 3000
FadeDuration == 300
ShowDuration == 200

\* ------------------------------------------------------------- variables
VARIABLES
  variant,            \* which reader implementation is running
  file,               \* what the byte source holds at document.uri
  hostPc,             \* position of loadPdfFile: "fetching" | "settled"
  pdfBase64,          \* host state: "null" | "" | "data"
  loading,            \* host state
  error,              \* host state: "null" or the message
  currentPage,        \* host state
  totalPages,         \* host state
  loadTimer,          \* setTimeout of handleWebViewLoad: "none" | "pending" | "done"
  toHost,             \* events posted by the surface, not yet handled by the host
  inbox,              \* loadPdf messages posted by the host, not yet dispatched
  surface,            \* "none" | "loading" | "running" | "gone"
  loops,              \* one record per invocation of loadPDF / renderPDF / render
  container,          \* heights of the canvases in #pdf-container, in DOM order
  pageOffsets,        \* surface: recorded page boundaries
  currentVisiblePage, \* surface: tracker's current page
  surfTotalPages,     \* surface: totalPages
  scrollListener,     \* surface: a scroll listener is attached
  scrollY,            \* surface: window.scrollY
  emitted,            \* history: the events the surface has sent, in order,
                      \*          page-change and tap events left out
  lastNotified,       \* history: page of the last page-change event sent, 0 if none
  tracked,            \* history: the scroll handler has run at least once
  lastProbe,          \* history: scrollY at the last run of the scroll handler since
                      \*          pageOffsets last changed, -1 if none
  monotone,           \* history: the probe points of the handler's runs since
                      \*          pageOffsets last changed never decreased
  decodes,            \* history: number of calls of pdfjsLib.getDocument
  nav,                \* the reader screen: "open" | "leaving" (goBack dispatched,
                      \*          still mounted) | "left" (unmounted)
  document,           \* route.params.document: the snapshot the screen was opened with
  store,              \* the document's lastReadPage in the document store
  writes,             \* history: number of calls of updateReadProgress
  isDark,             \* useTheme().isDark
  controlsVisible,    \* host state
  controlsOpacity,    \* target of the running or last opacity animation: 0 | 1
  fadeLeft,           \* ms until that animation ends, 0 once it has ended
  hideControlsTimeout,\* the pending timer hideControlsTimeout.current refers to
  orphans,            \* the pending hide timers no reference is left to, oldest first
  bridge,             \* surface: window.ReactNativeWebView is present
  escaped,            \* history: an exception has left a message handler of the host
  reads,              \* history: number of reads of the document's bytes started
  content,            \* web app state: "null" | "text"
  appLoading,         \* web app state: loading
  appError,           \* web app state: error, "null" or the message
  theme,              \* web app state
  fontSize,           \* web app state, in px
  viewControls,       \* ReaderView state: controlsVisible
  extracting,         \* an extractTextFromPdf is in flight
  twinOffsets,        \* the two scroll handlers side by side: their boundary list
  twinPush,           \* handleScroll on it: [page, sent] (current page, pages sent)
  twinEmbedded        \* the embedded scroll listener on it: [page, sent]

hostVars == <<hostPc, pdfBase64, loading, error, currentPage, totalPages, loadTimer>>
surfVars == <<surface, loops, container, pageOffsets, currentVisiblePage,
              surfTotalPages, scrollListener, scrollY>>
histVars == <<emitted, lastNotified, tracked, lastProbe, monotone, decodes>>
storeVars == <<store, writes>>
sessVars == <<nav, document, storeVars, isDark>>
ctlVars == <<controlsVisible, controlsOpacity, fadeLeft, hideControlsTimeout, orphans>>
auxVars == <<bridge, escaped, reads>>
appVars == <<content, appLoading, appError, theme, fontSize, viewControls, extracting>>
twinVars == <<twinOffsets, twinPush, twinEmbedded>>
vars == <<variant, file, twinVars, auxVars, appVars, hostVars, toHost, inbox, surfVars,
          histVars, sessVars, ctlVars>>

\* ------------------------------------------------------------- documents
\* A file of the byte source: the read throws, returns a zero-length string,
\* or returns the bytes of a document.  A document is decodable or not, has
\* numPages pages of the given rendered heights, and badPage is the page
\* whose rasterization fails (0: none).  Pages are short (1) or tall
\* (MaxHeight); the heights of a document whose rasterization fails are
\* never measured against a probe point (no scroll listener is attached
\* after a failure), so such documents are taken with short pages only.
Heights(n) == [1..n -> {1, MaxHeight}]

Files ==
  { [kind |-> "throw", decodable |-> FALSE, heights |-> <<>>, badPage |-> 0],
    [kind |-> "empty", decodable |-> FALSE, heights |-> <<>>, badPage |-> 0],
    [kind |-> "data",  decodable |-> FALSE, heights |-> <<>>, badPage |-> 0] }
  \cup
  { [kind |-> "data", decodable |-> TRUE, heights |-> h, badPage |-> b] :
      h \in UNION { Heights(n) : n \in 1..MaxPages }, b \in 0..MaxPages }

ValidFile(f) ==
  /\ f.badPage <= Len(f.heights)
  /\ f.badPage > 0 => \A k \in 1..Len(f.heights) : f.heights[k] = 1

numPages == Len(file.heights)

\* ----------------------------------------------------------------- events
Msg(t, p, n, m) == [type |-> t, page |-> p, total |-> n, message |-> m]

\* Event names differ between the variants.
LoadedType   == IF variant = "push" THEN "pdfLoaded" ELSE "loaded"
RenderedType == IF variant = "push" THEN "renderComplete" ELSE "rendered"
PageType     == IF variant = "push" THEN "pageChange" ELSE "page"

\* Messages that are not events of the surface, by what the host's listener
\* is handed: a string that is not JSON, the value null (the JSON text
\* "null" on the native bridge), an object without a type, an object with a
\* type no branch of the handler names.
NotJson     == "<not json>"
NullData    == "<null>"
NoType      == "<no type>"
UnknownType == "<unknown type>"

ForeignTypes == {NotJson, NullData, NoType, UnknownType}

\* try { const data = JSON.parse(event.nativeEvent.data); data.type ... }:
\* JSON.parse throws on text that is not JSON, and reading data.type throws
\* on null.
ThrowsOnBridge(m) == m.type \in {NotJson, NullData}

\* const data = event.data; data.type ...: nothing is parsed; reading
\* data.type throws on null and gives undefined on a string.
ThrowsOnWindow(m) == m.type = NullData

\* Messages of the failures (what the surface's catch block puts in the
\* error event, and what loadPdfFile's catch block puts in the host's error).
ReadFailure    == "read failed"
EmptyContent   == "Failed to read PDF file - empty content"
DecodeFailure  == "Invalid PDF structure"
RenderFailure  == "render failed"

\* ------------------------------------------------------- scroll tracking
\* const scrollTop = window.scrollY + window.innerHeight / 2, doubled.
Probe2(y) == 2 * y + InnerHeight

\* Variant of InRange whose lower bound is exclusive (scrollTop > top).
InRange_StrictTop(e, p2) == p2 > 2 * e.top /\ p2 < 2 * e.bottom

\* scrollTop >= top && scrollTop < bottom
InRange(e, p2) == p2 >= 2 * e.top /\ p2 < 2 * e.bottom

\* for (let i = 0; i < pageOffsets.length; i++) { if (in range) {...; break;} }
\* : index of the entry at which the loop of handleScroll breaks, 0 if the
\* loop runs to the end.
RECURSIVE ScanRange(_, _, _)
ScanRange(offs, i, p2) ==
  IF i > Len(offs) THEN 0
  ELSE IF InRange(offs[i], p2) THEN i
  ELSE ScanRange(offs, i + 1, p2)

\* Variant of handleScroll that falls back to page 1 when no entry contains
\* the probe point.
handleScroll_FallsBackToFirst(offs, cur, y) ==
  LET m == ScanRange(offs, 1, Probe2(y))
      pg == IF m # 0 THEN offs[m].pageNum ELSE 1
  IN IF pg # cur
     THEN [page |-> pg, send |-> TRUE]
     ELSE [page |-> cur, send |-> FALSE]

\* Variant of handleScroll without the test currentVisiblePage !== pageNum
\* (level-triggered).
handleScroll_LevelTriggered(offs, cur, y) ==
  LET m == ScanRange(offs, 1, Probe2(y)) IN
    IF m # 0
    THEN [page |-> offs[m].pageNum, send |-> TRUE]
    ELSE [page |-> cur, send |-> FALSE]

\* handleScroll of the push variant: the page it leaves in currentVisiblePage
\* and whether it sends a pageChange message.
handleScroll(offs, cur, y) ==
  LET m == ScanRange(offs, 1, Probe2(y)) IN
    IF m # 0 /\ offs[m].pageNum # cur
    THEN [page |-> offs[m].pageNum, send |-> TRUE]
    ELSE [page |-> cur, send |-> FALSE]

\* for (...) { if (y >= p.top && y < p.bottom && currentPage !== p.page) {...; break;} }
RECURSIVE ScanRangeAndChange(_, _, _, _)
ScanRangeAndChange(offs, i, p2, cur) ==
  IF i > Len(offs) THEN 0
  ELSE IF InRange(offs[i], p2) /\ cur # offs[i].pageNum THEN i
  ELSE ScanRangeAndChange(offs, i + 1, p2, cur)

\* The anonymous scroll listener of the embedded variants.
scrollListenerFn(offs, cur, y) ==
  LET m == ScanRangeAndChange(offs, 1, Probe2(y), cur) IN
    IF m # 0
    THEN [page |-> offs[m].pageNum, send |-> TRUE]
    ELSE [page |-> cur, send |-> FALSE]

\* The handler that runs on a scroll event in the running variant.
Tracker(offs, cur, y) ==
  IF variant = "push" THEN handleScroll(offs, cur, y)
  ELSE scrollListenerFn(offs, cur, y)

\* The two handlers side by side on one boundary list: each keeps its own
\* current page and the pages of the page-change messages it has sent.
TwinStart(page) == [page |-> page, sent |-> <<>>]

TwinStep(t, r) ==
  [page |-> r.page, sent |-> IF r.send THEN Append(t.sent, r.page) ELSE t.sent]

\* Boundary lists of up to MaxPages entries { pageNum, top, bottom }, in any
\* order, overlapping or not, of heights 1 and MaxHeight.
TwinEntries ==
  { [pageNum |-> n, top |-> t, bottom |-> t + h] :
      n \in 1..MaxPages, t \in 0..TopPad, h \in {1, MaxHeight} }

TwinLists == UNION { [1..k -> TwinEntries] : k \in 0..MaxPages }

\* ----------------------------------------------------------------- layout
\* The canvases are block children of the container with no vertical gap:
\* canvas.offsetTop is the container's top padding plus the heights of the
\* canvases before it.
RECURSIVE SumTo(_, _)
SumTo(hs, k) == IF k = 0 THEN 0 ELSE hs[k] + SumTo(hs, k - 1)

OffsetTop(hs, k) == TopPad + SumTo(hs, k - 1)

\* { pageNum, top: canvas.offsetTop, bottom: canvas.offsetTop + canvas.offsetHeight }
Boundary(hs, k, pageNum) ==
  [pageNum |-> pageNum, top |-> OffsetTop(hs, k), bottom |-> OffsetTop(hs, k) + hs[k]]

\* ----------------------------------------------------------------- chrome
\* A pending timer: the 3000 ms auto-hide ("auto", its callback calls
\* hideControls) or the 300 ms removal ("remove", its callback calls
\* setControlsVisible(false)); left is the time until it is due.
Timer(kind, left) == [kind |-> kind, left |-> left]

NoTimer == Timer("none", 0)

\* The chrome as one record, for the functions below.
Ctl ==
  [controlsVisible |-> controlsVisible, controlsOpacity |-> controlsOpacity,
   fadeLeft |-> fadeLeft, hideControlsTimeout |-> hideControlsTimeout,
   orphans |-> orphans]

SetCtl(c) ==
  /\ controlsVisible' = c.controlsVisible
  /\ controlsOpacity' = c.controlsOpacity
  /\ fadeLeft' = c.fadeLeft
  /\ hideControlsTimeout' = c.hideControlsTimeout
  /\ orphans' = c.orphans

\* clearTimeout(hideControlsTimeout.current): the timer the reference names
\* is cancelled if it is still pending (the reference to a fired or cleared
\* timer keeps a stale id, which behaves as no timer).
clearTimeout(c) == [c EXCEPT !.hideControlsTimeout = NoTimer]

\* hideControlsTimeout.current = setTimeout(...): the reference is
\* overwritten; a timer it named that is still pending stays pending.
setTimeout(c, kind, delay) ==
  [c EXCEPT !.orphans = IF c.hideControlsTimeout = NoTimer
                        THEN c.orphans
                        ELSE Append(c.orphans, c.hideControlsTimeout),
            !.hideControlsTimeout = Timer(kind, delay)]

\* showControls: clear the referenced timer, setControlsVisible(true) (no
\* effect once the screen is unmounted), fade in over 200 ms.
showControls(c) ==
  [clearTimeout(c) EXCEPT !.controlsVisible = IF nav = "left" THEN c.controlsVisible ELSE TRUE,
                          !.controlsOpacity = 1,
                          !.fadeLeft = ShowDuration]

\* hideControls: fade out over 300 ms and arm the 300 ms removal timer; the
\* timer referenced before is not cleared.
hideControls(c) ==
  setTimeout([c EXCEPT !.controlsOpacity = 0, !.fadeLeft = FadeDuration],
             "remove", FadeDuration)

\* scheduleHideControls: clear the referenced timer, arm the auto-hide.
scheduleHideControls(c) == setTimeout(clearTimeout(c), "auto", HideDelay)

\* toggleControls, on the controlsVisible of the last render.
toggleControls(c) ==
  IF c.controlsVisible
  THEN hideControls(c)
  ELSE scheduleHideControls(showControls(c))

\* ------------------------------------------------------------------- Init
\* The document of a fresh import (LibraryScreen handleImport).
NewDoc == [lastReadPage |-> 0, pageCount |-> 1]

\* The chrome after the first render and the mount effect: shown, and
\* scheduleHideControls() has armed the auto-hide.
SetCtlInit ==
  /\ controlsVisible = TRUE
  /\ controlsOpacity = 1
  /\ fadeLeft = 0
  /\ hideControlsTimeout = Timer("auto", HideDelay)
  /\ orphans = <<>>

\* The state of the screen's hooks after the first render and its mount
\* effects: the useState initial values (document.lastReadPage || 1,
\* document.pageCount || 1), and the store as the library left it.
Mount ==
  /\ currentPage = (IF document.lastReadPage = 0 THEN 1 ELSE document.lastReadPage)
  /\ totalPages = (IF document.pageCount = 0 THEN 1 ELSE document.pageCount)
  /\ store = document.lastReadPage
  /\ writes = 0
  /\ isDark = FALSE
  /\ SetCtlInit

\* The web app after its first render (the useState initial values of App;
\* ReaderView is not mounted).
AppMount ==
  /\ content = "null"
  /\ appLoading = FALSE
  /\ appError = "null"
  /\ theme = "light"
  /\ fontSize = 18
  /\ viewControls = TRUE
  /\ extracting = FALSE

\* The reader has been mounted on the document d; the mount effect has
\* called loadPdfFile, which has run up to the await of the read.  The
\* page's bridge object is present or not.
ReaderOpened(d) ==
  /\ variant \in Variants
  /\ file \in { f \in Files : ValidFile(f) }
  /\ hostPc = "fetching"
  /\ pdfBase64 = "null"
  /\ loading = TRUE
  /\ error = "null"
  /\ loadTimer = "none"
  /\ toHost = <<>>
  /\ inbox = 0
  /\ surface = "none"
  /\ loops = <<>>
  /\ container = <<>>
  /\ pageOffsets = <<>>
  /\ currentVisiblePage = 1
  /\ surfTotalPages = 1
  /\ scrollListener = FALSE
  /\ scrollY = 0
  /\ emitted = <<>>
  /\ lastNotified = 0
  /\ tracked = FALSE
  /\ lastProbe = -1
  /\ monotone = TRUE
  /\ decodes = 0
  /\ nav = "open"
  /\ document = d
  /\ Mount
  /\ bridge \in BOOLEAN
  /\ escaped = FALSE
  /\ reads = 1
  /\ AppMount

\* The same with the side-by-side run of the two scroll handlers not in use.
Opened(d) ==
  /\ ReaderOpened(d)
  /\ twinOffsets = <<>>
  /\ twinPush = TwinStart(1)
  /\ twinEmbedded = TwinStart(1)

\* The reader has been mounted on a freshly imported document (lastReadPage
\* 0 and pageCount 1), so currentPage and totalPages start at 1; the page
\* runs in a WebView that provides window.ReactNativeWebView.
Init == Opened(NewDoc) /\ bridge

\* ------------------------------------------------------------------- host
\* loadPdfFile whose catch block starts the read again, once.
loadPdfFile_Retries ==
  /\ hostPc = "fetching"
  /\ IF file.kind = "throw" /\ reads = 1 /\ nav # "left"
     THEN /\ reads' = reads + 1
          /\ UNCHANGED <<hostPc, pdfBase64, error, loading, surface>>
     ELSE /\ hostPc' = "settled"
          /\ UNCHANGED reads
          /\ IF nav = "left"
             THEN UNCHANGED <<pdfBase64, error, loading, surface>>
             ELSE /\ IF file.kind = "throw"
                     THEN /\ error' = ReadFailure
                          /\ loading' = FALSE
                          /\ UNCHANGED pdfBase64
                     ELSE IF file.kind = "empty" /\ variant # "push"
                     THEN /\ error' = EmptyContent
                          /\ loading' = FALSE
                          /\ UNCHANGED pdfBase64
                     ELSE /\ pdfBase64' = (IF file.kind = "empty" THEN "" ELSE "data")
                          /\ UNCHANGED <<error, loading>>
                  /\ surface' = IF pdfBase64' = "data" /\ error' = "null" THEN "loading" ELSE surface
  /\ UNCHANGED <<variant, file, twinVars, bridge, escaped, appVars, sessVars, ctlVars, currentPage, totalPages,
                 loadTimer, toHost, inbox, loops, container, pageOffsets, currentVisiblePage,
                 surfTotalPages, scrollListener, scrollY, histVars>>

\* The continuation of loadPdfFile after the await of the read.  The push
\* variant stores whatever the read returned; the variants of part_000
\* throw on empty content.  A truthy pdfBase64 with no error mounts the
\* viewer, whose page then starts loading.  There is no cancellation flag:
\* after the screen was unmounted the continuation still runs, and its
\* state setters are dropped by React (an unmounted component has no state
\* and renders nothing).
loadPdfFile ==
  /\ hostPc = "fetching"
  /\ hostPc' = "settled"
  /\ IF nav = "left"
     THEN UNCHANGED <<pdfBase64, error, loading, surface>>
     ELSE /\ IF file.kind = "throw"
             THEN /\ error' = ReadFailure
                  /\ loading' = FALSE
                  /\ UNCHANGED pdfBase64
             ELSE IF file.kind = "empty" /\ variant # "push"
             THEN /\ error' = EmptyContent
                  /\ loading' = FALSE
                  /\ UNCHANGED pdfBase64
             ELSE /\ pdfBase64' = (IF file.kind = "empty" THEN "" ELSE "data")
                  /\ UNCHANGED <<error, loading>>
          /\ surface' = IF pdfBase64' = "data" /\ error' = "null" THEN "loading" ELSE surface
  /\ UNCHANGED <<variant, file, twinVars, auxVars, appVars, sessVars, ctlVars, currentPage, totalPages, loadTimer, toHost, inbox,
                 loops, container, pageOffsets, currentVisiblePage, surfTotalPages,
                 scrollListener, scrollY, histVars>>

\* ---------------------------------------------------------------- surface
\* sendMessage / send / parent.postMessage: the events ms go to the host.
\* sendMessage and send post only if (window.ReactNativeWebView) and do
\* nothing otherwise; the iframe of the web viewer always has a parent.
Lifecycle(m) == m.type \notin {"page", "pageChange", "tap"}

BridgeUp == variant = "web" \/ bridge

sendMessage(ms) ==
  /\ toHost' = IF BridgeUp THEN toHost \o ms ELSE toHost
  /\ emitted' = IF BridgeUp THEN emitted \o SelectSeq(ms, Lifecycle) ELSE emitted

Loop(pc, pageNum, canvas) == [pc |-> pc, pageNum |-> pageNum, canvas |-> canvas]

Active(l) == l.pc \in {"decode", "getPage", "render"}

\* The script of the embedded page has run.  Push variant: the listeners
\* are registered and `ready` is sent.  Embedded variants: renderPDF() /
\* render() is called; the bytes are present, are decoded from base64 and
\* handed to pdfjsLib.getDocument.
ScriptRun ==
  /\ surface = "loading"
  /\ surface' = "running"
  /\ IF variant = "push"
     THEN /\ sendMessage(<<Msg("ready", 0, 0, "")>>)
          /\ UNCHANGED <<loops, decodes>>
     ELSE /\ loops' = Append(loops, Loop("decode", 0, 0))
          /\ decodes' = decodes + 1
          /\ UNCHANGED <<toHost, emitted>>
  /\ UNCHANGED <<variant, file, twinVars, auxVars, appVars, sessVars, ctlVars, hostVars, inbox, container, pageOffsets,
                 currentVisiblePage, surfTotalPages, scrollListener, scrollY,
                 lastNotified, tracked, lastProbe, monotone>>

\* loadPDF(base64Data) up to its first await: the data is non-empty (the
\* listener tested data.base64), is decoded from base64 and handed to
\* pdfjsLib.getDocument.
loadPDF ==
  /\ loops' = Append(loops, Loop("decode", 0, 0))
  /\ decodes' = decodes + 1

\* window.addEventListener('message', ...): a loadPdf message dispatched on
\* the window (iOS) is parsed and starts loadPDF.
WindowMessage ==
  /\ variant = "push"
  /\ surface = "running"
  /\ inbox > 0
  /\ inbox' = inbox - 1
  /\ loadPDF
  /\ UNCHANGED <<variant, file, twinVars, auxVars, appVars, sessVars, ctlVars, hostVars, toHost, surface, container, pageOffsets,
                 currentVisiblePage, surfTotalPages, scrollListener, scrollY,
                 emitted, lastNotified, tracked, lastProbe, monotone>>

\* document.addEventListener('message', ...): the same for a message
\* dispatched on the document (Android).
DocumentMessage ==
  /\ variant = "push"
  /\ surface = "running"
  /\ inbox > 0
  /\ inbox' = inbox - 1
  /\ loadPDF
  /\ UNCHANGED <<variant, file, twinVars, auxVars, appVars, sessVars, ctlVars, hostVars, toHost, surface, container, pageOffsets,
                 currentVisiblePage, surfTotalPages, scrollListener, scrollY,
                 emitted, lastNotified, tracked, lastProbe, monotone>>

\* pdfjsLib.getDocument(...).promise settles in loop i.  Resolved: totalPages
\* is set, `loaded` is sent and the page loop starts with page 1.  Rejected:
\* the catch block sends `error`.
DecodeReturn(i) ==
  /\ surface = "running"
  /\ loops[i].pc = "decode"
  /\ IF file.decodable
     THEN /\ surfTotalPages' = numPages
          /\ sendMessage(<<Msg(LoadedType, 0, numPages, "")>>)
          /\ loops' = [loops EXCEPT ![i] = Loop("getPage", 1, 0)]
     ELSE /\ sendMessage(<<Msg("error", 0, 0, DecodeFailure)>>)
          /\ loops' = [loops EXCEPT ![i] = Loop("failed", 0, 0)]
          /\ UNCHANGED surfTotalPages
  /\ UNCHANGED <<variant, file, twinVars, auxVars, appVars, sessVars, ctlVars, hostVars, inbox, surface, container, pageOffsets,
                 currentVisiblePage, scrollListener, scrollY,
                 lastNotified, tracked, lastProbe, monotone, decodes>>

\* pdf.getPage(pageNum) resolves in loop i.  The embedded variants create the
\* canvas and append it to the container before rasterizing; the push
\* variant (renderPage) only creates it.
PageOpened(i) ==
  /\ surface = "running"
  /\ loops[i].pc = "getPage"
  /\ IF variant = "push"
     THEN /\ loops' = [loops EXCEPT ![i] = Loop("render", loops[i].pageNum, 0)]
          /\ UNCHANGED container
     ELSE /\ container' = Append(container, file.heights[loops[i].pageNum])
          /\ loops' = [loops EXCEPT ![i] = Loop("render", loops[i].pageNum, Len(container) + 1)]
  /\ UNCHANGED <<variant, file, twinVars, auxVars, appVars, sessVars, ctlVars, hostVars, toHost, inbox, surface, pageOffsets,
                 currentVisiblePage, surfTotalPages, scrollListener, scrollY, histVars>>

\* One run of the scroll handler at scroll position y on the list offs:
\* the tracker's page, the page-change event if one is sent, and the
\* history of the probe points.
RunTracker(offs, y, before) ==
  LET r == Tracker(offs, currentVisiblePage, y) IN
    /\ currentVisiblePage' = r.page
    /\ sendMessage(before \o
         (IF r.send THEN <<Msg(PageType, r.page, surfTotalPages, "")>> ELSE <<>>))
    /\ lastNotified' = IF r.send /\ BridgeUp THEN r.page ELSE lastNotified
    /\ tracked' = TRUE
    /\ lastProbe' = y
    /\ monotone' = IF offs = pageOffsets THEN (monotone /\ y >= lastProbe) ELSE TRUE

\* page.render(...).promise settles in loop i.  Rejected: the catch block
\* sends `error`.  Resolved: the boundary of the page is measured and pushed
\* (the push variant appends the canvas first), and either the next page is
\* opened or, after the last page, `rendered` is sent and the scroll
\* listener attached; the push variant then calls handleScroll() once.
PageRendered(i) ==
  /\ surface = "running"
  /\ loops[i].pc = "render"
  /\ LET n  == loops[i].pageNum
         hs == IF variant = "push" THEN Append(container, file.heights[n]) ELSE container
         k  == IF variant = "push" THEN Len(hs) ELSE loops[i].canvas
         offs == Append(pageOffsets, Boundary(hs, k, n))
     IN IF file.badPage = n
        THEN /\ sendMessage(<<Msg("error", 0, 0, RenderFailure)>>)
             /\ loops' = [loops EXCEPT ![i] = Loop("failed", n, 0)]
             /\ UNCHANGED <<container, pageOffsets, currentVisiblePage, scrollListener,
                            lastNotified, tracked, lastProbe, monotone>>
        ELSE /\ container' = hs
             /\ pageOffsets' = offs
             /\ IF n + 1 <= surfTotalPages
                THEN /\ loops' = [loops EXCEPT ![i] = Loop("getPage", n + 1, 0)]
                     /\ lastProbe' = -1
                     /\ monotone' = TRUE
                     /\ UNCHANGED <<toHost, emitted, currentVisiblePage, scrollListener,
                                    lastNotified, tracked>>
                ELSE /\ loops' = [loops EXCEPT ![i] = Loop("done", n, 0)]
                     /\ scrollListener' = TRUE
                     /\ IF variant = "push"
                        THEN RunTracker(offs, scrollY, <<Msg(RenderedType, 0, 0, "")>>)
                        ELSE /\ sendMessage(<<Msg(RenderedType, 0, 0, "")>>)
                             /\ lastProbe' = -1
                             /\ monotone' = TRUE
                             /\ UNCHANGED <<currentVisiblePage, lastNotified, tracked>>
  /\ UNCHANGED <<variant, file, twinVars, auxVars, appVars, sessVars, ctlVars, hostVars, inbox, surface, surfTotalPages, scrollY, decodes>>

\* The user scrolls the surface to position y; the scroll event runs the
\* handler if one is attached.
UserScroll(y) ==
  /\ surface = "running"
  /\ Len(toHost) < MaxQueue
  /\ scrollY' = y
  /\ IF scrollListener
     THEN RunTracker(pageOffsets, y, <<>>)
     ELSE UNCHANGED <<toHost, emitted, currentVisiblePage, lastNotified, tracked, lastProbe, monotone>>
  /\ UNCHANGED <<variant, file, twinVars, auxVars, appVars, sessVars, ctlVars, hostVars, inbox, surface, loops, container, pageOffsets,
                 surfTotalPages, scrollListener, decodes>>

\* A scroll event at position y reaches both handlers.
TwinScroll(y) ==
  /\ Len(twinPush.sent) < MaxQueue
  /\ Len(twinEmbedded.sent) < MaxQueue
  /\ twinPush' = TwinStep(twinPush, handleScroll(twinOffsets, twinPush.page, y))
  /\ twinEmbedded' =
       TwinStep(twinEmbedded, scrollListenerFn(twinOffsets, twinEmbedded.page, y))
  /\ UNCHANGED <<variant, file, twinOffsets, auxVars, appVars, hostVars, toHost, inbox,
                 surfVars, histVars, sessVars, ctlVars>>

\* ------------------------------------------------------- host: the events
\* The viewer is mounted while pdfBase64 is truthy and no error is set; the
\* error view replaces the whole screen, which unmounts the viewer: the
\* surface is destroyed with its render loops, and what was in flight to or
\* from it is never delivered (the onMessage handler is gone with the
\* viewer, webViewRef.current is null).
ViewerMounted == surface \in {"loading", "running"}

onError(message) ==
  /\ error' = message
  /\ loading' = FALSE
  /\ surface' = "gone"
  /\ toHost' = <<>>
  /\ inbox' = 0
  /\ UNCHANGED <<currentPage, totalPages, storeVars, ctlVars>>

\* handlePageChange that also persists the page it is given.
handlePageChange_Persists(page, total) ==
  /\ currentPage' = page
  /\ totalPages' = total
  /\ store' = page
  /\ UNCHANGED writes

\* handlePageChange(page, total)
handlePageChange(page, total) ==
  /\ currentPage' = page
  /\ totalPages' = total
  /\ UNCHANGED storeVars

\* handleWebViewMessage of the push variant, on the oldest undelivered event.
handleWebViewMessage ==
  /\ variant = "push"
  /\ ViewerMounted
  /\ toHost # <<>>
  /\ LET data == Head(toHost) IN
       IF ThrowsOnBridge(data)
       THEN \* caught: console.error("WebView message error:", err)
            /\ toHost' = Tail(toHost)
            /\ UNCHANGED <<inbox, currentPage, totalPages, loading, error, surface, storeVars, ctlVars>>
       ELSE IF data.type = "ready" /\ pdfBase64 = "data"
       THEN /\ inbox' = inbox + 1
            /\ toHost' = Tail(toHost)
            /\ UNCHANGED <<currentPage, totalPages, loading, error, surface, storeVars, ctlVars>>
       ELSE IF data.type = "pageChange"
       THEN /\ handlePageChange(data.page, data.total)
            /\ toHost' = Tail(toHost)
            /\ UNCHANGED <<inbox, loading, error, surface, ctlVars>>
       ELSE IF data.type = "pdfLoaded"
       THEN /\ totalPages' = data.total
            /\ toHost' = Tail(toHost)
            /\ UNCHANGED <<inbox, currentPage, loading, error, surface, storeVars, ctlVars>>
       ELSE IF data.type = "renderComplete"
       THEN /\ loading' = FALSE
            /\ toHost' = Tail(toHost)
            /\ UNCHANGED <<inbox, currentPage, totalPages, error, surface, storeVars, ctlVars>>
       ELSE IF data.type = "tap"
       THEN /\ SetCtl(toggleControls(Ctl))
            /\ toHost' = Tail(toHost)
            /\ UNCHANGED <<inbox, currentPage, totalPages, loading, error, surface, storeVars>>
       ELSE IF data.type = "error"
       THEN onError(data.message)
       ELSE /\ toHost' = Tail(toHost)
            /\ UNCHANGED <<inbox, currentPage, totalPages, loading, error, surface, storeVars, ctlVars>>
  /\ UNCHANGED <<variant, file, twinVars, auxVars, appVars, nav, document, isDark, hostPc, pdfBase64, loadTimer, loops, container,
                 pageOffsets, currentVisiblePage, surfTotalPages, scrollListener,
                 scrollY, histVars>>

\* handleMessage of NativePDFViewer with the callbacks ReaderScreen passes:
\* onLoaded = setTotalPages, onRenderComplete = () => setLoading(false).
handleMessage ==
  /\ variant = "native"
  /\ ViewerMounted
  /\ toHost # <<>>
  /\ LET data == Head(toHost) IN
       IF ThrowsOnBridge(data)
       THEN \* caught: console.error("WebView message error:", err)
            /\ toHost' = Tail(toHost)
            /\ UNCHANGED <<inbox, currentPage, totalPages, loading, error, surface, storeVars, ctlVars>>
       ELSE IF data.type = "loaded"
       THEN /\ totalPages' = data.total
            /\ toHost' = Tail(toHost)
            /\ UNCHANGED <<inbox, currentPage, loading, error, surface, storeVars, ctlVars>>
       ELSE IF data.type = "rendered"
       THEN /\ loading' = FALSE
            /\ toHost' = Tail(toHost)
            /\ UNCHANGED <<inbox, currentPage, totalPages, error, surface, storeVars, ctlVars>>
       ELSE IF data.type = "page"
       THEN /\ handlePageChange(data.page, data.total)
            /\ toHost' = Tail(toHost)
            /\ UNCHANGED <<inbox, loading, error, surface, ctlVars>>
       ELSE IF data.type = "tap"
       THEN /\ SetCtl(toggleControls(Ctl))
            /\ toHost' = Tail(toHost)
            /\ UNCHANGED <<inbox, currentPage, totalPages, loading, error, surface, storeVars>>
       ELSE IF data.type = "error"
       THEN onError(data.message)
       ELSE /\ toHost' = Tail(toHost)
            /\ UNCHANGED <<inbox, currentPage, totalPages, loading, error, surface, storeVars, ctlVars>>
  /\ UNCHANGED <<variant, file, twinVars, auxVars, appVars, nav, document, isDark, hostPc, pdfBase64, loadTimer, loops, container,
                 pageOffsets, currentVisiblePage, surfTotalPages, scrollListener,
                 scrollY, histVars>>

\* handleMessage of WebPDFViewer with the callbacks ReaderScreen passes:
\* onLoaded = (total) => { setTotalPages(total); setLoading(false); };
\* `rendered` only sets the viewer's own rendered flag.  The listener has no
\* try/catch: an exception thrown in it leaves it.
handleMessageWeb ==
  /\ variant = "web"
  /\ ViewerMounted
  /\ toHost # <<>>
  /\ escaped' = (escaped \/ ThrowsOnWindow(Head(toHost)))
  /\ LET data == Head(toHost) IN
       IF ThrowsOnWindow(data)
       THEN /\ toHost' = Tail(toHost)
            /\ UNCHANGED <<inbox, currentPage, totalPages, loading, error, surface, storeVars, ctlVars>>
       ELSE IF data.type = "loaded"
       THEN /\ totalPages' = data.total
            /\ loading' = FALSE
            /\ toHost' = Tail(toHost)
            /\ UNCHANGED <<inbox, currentPage, error, surface, storeVars, ctlVars>>
       ELSE IF data.type = "page"
       THEN /\ handlePageChange(data.page, data.total)
            /\ toHost' = Tail(toHost)
            /\ UNCHANGED <<inbox, loading, error, surface, ctlVars>>
       ELSE IF data.type = "error"
       THEN onError(data.message)
       ELSE /\ toHost' = Tail(toHost)
            /\ UNCHANGED <<inbox, currentPage, totalPages, loading, error, surface, storeVars, ctlVars>>
  /\ UNCHANGED <<variant, file, twinVars, bridge, reads, appVars, nav, document, isDark, hostPc, pdfBase64, loadTimer, loops, container,
                 pageOffsets, currentVisiblePage, surfTotalPages, scrollListener,
                 scrollY, histVars>>

\* A message that is not an event of the surface arrives at the host's
\* listener while the viewer is mounted (the listeners take every message
\* of the bridge, or every message event of the window).
ForeignMessage(t) ==
  /\ surface = "running"
  /\ Len(toHost) < MaxQueue
  /\ toHost' = Append(toHost, Msg(t, 0, 0, ""))
  /\ UNCHANGED <<variant, file, twinVars, auxVars, appVars, sessVars, ctlVars, hostVars, inbox, surfVars,
                 histVars>>

\* document.addEventListener('click', ...): a tap on the page sends `tap`.
\* The web viewer's page has no click listener.  While loading is set the
\* loading overlay covers the viewer, so the page is tapped only after it.
Click ==
  /\ variant # "web"
  /\ surface = "running"
  /\ ~loading
  /\ Len(toHost) < MaxQueue
  /\ Len(orphans) < MaxTimers - 1
  /\ sendMessage(<<Msg("tap", 0, 0, "")>>)
  /\ UNCHANGED <<variant, file, twinVars, auxVars, appVars, sessVars, ctlVars, hostVars, inbox, surfVars,
                 lastNotified, tracked, lastProbe, monotone, decodes>>

\* handleWebViewLoad (onLoad of the WebView, push variant): with the bytes
\* present it arms a 500 ms timer.
handleWebViewLoad ==
  /\ variant = "push"
  /\ surface = "running"
  /\ loadTimer = "none"
  /\ loadTimer' = IF pdfBase64 = "data" THEN "pending" ELSE "skipped"
  /\ UNCHANGED <<variant, file, twinVars, auxVars, appVars, sessVars, ctlVars, hostPc, pdfBase64, loading, error, currentPage,
                 totalPages, toHost, inbox, surfVars, histVars>>

\* The timer's callback posting without the check of webViewRef.current.
LoadTimerFire_NoRefCheck ==
  /\ loadTimer = "pending"
  /\ loadTimer' = "done"
  /\ inbox' = inbox + 1
  /\ UNCHANGED <<variant, file, twinVars, auxVars, appVars, sessVars, ctlVars, hostPc, pdfBase64, loading, error, currentPage,
                 totalPages, toHost, surfVars, histVars>>

\* The 500 ms timer fires: webViewRef.current?.postMessage(loadPdf).
LoadTimerFire ==
  /\ loadTimer = "pending"
  /\ loadTimer' = "done"
  /\ inbox' = IF ViewerMounted THEN inbox + 1 ELSE inbox
  /\ UNCHANGED <<variant, file, twinVars, auxVars, appVars, sessVars, ctlVars, hostPc, pdfBase64, loading, error, currentPage,
                 totalPages, toHost, surfVars, histVars>>

\* --------------------------------------------------------- host: timers
\* A removal timer's callback: setControlsVisible(false), dropped once the
\* screen is unmounted.
setControlsVisible(c, v) ==
  [c EXCEPT !.controlsVisible = IF nav = "left" THEN c.controlsVisible ELSE v]

\* The callback of the timer t, on the chrome c the timer has left.
Callback(c, t) ==
  IF t.kind = "auto" THEN hideControls(c) ELSE setControlsVisible(c, FALSE)

\* The pending timers by number: number 0 is the one the reference names,
\* number i > 0 is orphans[i].  The reference always names the timer created
\* last, and orphans is in order of creation.
PendingTimers ==
  (IF hideControlsTimeout = NoTimer THEN {} ELSE {0}) \cup (1..Len(orphans))

TimerAt(i) == IF i = 0 THEN hideControlsTimeout ELSE orphans[i]

\* Timer j runs before timer i: it is due earlier, or was created earlier
\* with the same delay and is due in the same quantum.
RunsBefore(j, i) ==
  \/ TimerAt(j).left < TimerAt(i).left
  \/ /\ TimerAt(j).left = TimerAt(i).left
     /\ TimerAt(j).kind = TimerAt(i).kind
     /\ j # 0
     /\ i = 0 \/ j < i

\* The pending timer number i is due and fires.
TimerFire(i) ==
  /\ i \in PendingTimers
  /\ TimerAt(i).left <= 0
  /\ \A j \in PendingTimers \ {i} : ~RunsBefore(j, i)
  /\ IF i = 0
     THEN /\ SetCtl(Callback(clearTimeout(Ctl), hideControlsTimeout))
     ELSE /\ SetCtl(Callback([Ctl EXCEPT !.orphans =
                                 SubSeq(orphans, 1, i - 1) \o SubSeq(orphans, i + 1, Len(orphans))],
                              orphans[i]))
  /\ UNCHANGED <<variant, file, twinVars, auxVars, appVars, hostVars, toHost, inbox, surfVars, histVars, sessVars>>

\* Quantum ms pass: every pending timer and the running opacity animation
\* come that much closer to their end.  A timer that is due fires before
\* more time passes.
Elapse(t) == [t EXCEPT !.left = t.left - Quantum]

Tick ==
  /\ hideControlsTimeout # NoTimer \/ orphans # <<>> \/ fadeLeft > 0
  /\ hideControlsTimeout.kind # "none" => hideControlsTimeout.left > 0
  /\ \A i \in 1..Len(orphans) : orphans[i].left > 0
  /\ hideControlsTimeout' = IF hideControlsTimeout = NoTimer THEN NoTimer
                            ELSE Elapse(hideControlsTimeout)
  /\ orphans' = [i \in 1..Len(orphans) |-> Elapse(orphans[i])]
  /\ fadeLeft' = IF fadeLeft > Quantum THEN fadeLeft - Quantum ELSE 0
  /\ UNCHANGED <<variant, file, twinVars, auxVars, appVars, hostVars, toHost, inbox, surfVars, histVars, sessVars,
                 controlsVisible, controlsOpacity>>

\* -------------------------------------------------- host: leaving, theme
\* updateReadProgress(document.id, page) of @/lib/storage: the document's
\* lastReadPage becomes page.
updateReadProgress(page) ==
  /\ store' = page
  /\ writes' = writes + 1

\* The document as the store holds it: the snapshot the reader was opened
\* with, its lastReadPage as written since (nothing writes pageCount).
StoredDocument == [document EXCEPT !.lastReadPage = store]

\* progress of PDFCard: document.pageCount > 0
\*   ? Math.round((document.lastReadPage / document.pageCount) * 100) : 0
\* (Math.round of a non-negative x is the floor of x + 1/2).
progress(doc) ==
  IF doc.pageCount > 0
  THEN (200 * doc.lastReadPage + doc.pageCount) \div (2 * doc.pageCount)
  ELSE 0

\* handleGoBack: the back button of the chrome (rendered while
\* controlsVisible) or the Go Back button of the error view is pressed.
\* Nothing disables the button after the first press; the screen stays
\* mounted until the navigator has removed it.
handleGoBack ==
  /\ nav # "left"
  /\ error # "null" \/ controlsVisible
  /\ writes < MaxWrites
  /\ updateReadProgress(currentPage)
  /\ nav' = "leaving"
  /\ UNCHANGED <<variant, file, twinVars, auxVars, appVars, hostVars, toHost, inbox, surfVars, histVars,
                 document, isDark, ctlVars>>

\* The hardware back button or the back gesture: the native stack pops the
\* Reader screen; the screen registers no listener for it.
SystemBack ==
  /\ nav = "open"
  /\ nav' = "leaving"
  /\ UNCHANGED <<variant, file, twinVars, auxVars, appVars, hostVars, toHost, inbox, surfVars, histVars,
                 document, storeVars, isDark, ctlVars>>

\* The screen is unmounted: the cleanup of the mount effect clears the
\* referenced timer, and the viewer is destroyed with what was in flight to
\* or from it.
Unmount ==
  /\ nav = "leaving"
  /\ nav' = "left"
  /\ SetCtl(clearTimeout(Ctl))
  /\ surface' = IF ViewerMounted THEN "gone" ELSE surface
  /\ toHost' = <<>>
  /\ inbox' = 0
  /\ UNCHANGED <<variant, file, twinVars, auxVars, appVars, hostVars, loops, container, pageOffsets,
                 currentVisiblePage, surfTotalPages, scrollListener, scrollY,
                 histVars, document, storeVars, isDark>>

\* isDark changes while the web viewer is mounted: the effect of
\* WebPDFViewer depends on [pdfBase64, isDark], so its cleanup runs and the
\* effect builds a new iframe that replaces the old one in the container;
\* the new page starts from scratch.  Events the old page had posted are
\* still delivered to the new listener.
ThemeChange ==
  /\ variant = "web"
  /\ ViewerMounted
  /\ decodes <= MaxThemeChanges
  /\ isDark' = ~isDark
  /\ surface' = "loading"
  /\ loops' = <<>>
  /\ container' = <<>>
  /\ pageOffsets' = <<>>
  /\ currentVisiblePage' = 1
  /\ surfTotalPages' = 1
  /\ scrollListener' = FALSE
  /\ scrollY' = 0
  /\ lastProbe' = -1
  /\ monotone' = TRUE
  /\ UNCHANGED <<variant, file, twinVars, auxVars, appVars, hostVars, toHost, inbox, emitted, lastNotified, tracked,
                 decodes, nav, document, storeVars, ctlVars>>

\* ---------------------------------------------------------------- web app
\* The web app (src/web) shows the spinner while loading, else ReaderView
\* while content is set, else FileUpload.  The header of ReaderView takes
\* clicks only while its controls are visible (opacity-0 pointer-events-none
\* otherwise).
Themes == {"light", "dark", "sepia"}

UploadShown == ~appLoading /\ content = "null"
ReaderShown == ~appLoading /\ content # "null"
HeaderShown == ReaderShown /\ viewControls

\* handleFileSelect whose extractTextFromPdf does not call setError(null).
handleFileSelect_KeepsError ==
  /\ UploadShown
  /\ appLoading' = TRUE
  /\ extracting' = TRUE
  /\ UNCHANGED <<variant, file, twinVars, auxVars, hostVars, toHost, inbox, surfVars, histVars,
                 sessVars, ctlVars, content, appError, theme, fontSize, viewControls>>

\* handleFileSelect(file): extractTextFromPdf runs up to its first await.
handleFileSelect ==
  /\ UploadShown
  /\ appLoading' = TRUE
  /\ appError' = "null"
  /\ extracting' = TRUE
  /\ UNCHANGED <<variant, file, twinVars, auxVars, hostVars, toHost, inbox, surfVars, histVars,
                 sessVars, ctlVars, content, theme, fontSize, viewControls>>

\* extractTextFromPdf settles: the text was extracted (setContent, which
\* mounts ReaderView with its controls visible) or an await threw
\* (setError); finally setLoading(false).
ExtractReturn(ok) ==
  /\ extracting
  /\ extracting' = FALSE
  /\ appLoading' = FALSE
  /\ IF ok
     THEN content' = "text" /\ viewControls' = TRUE /\ UNCHANGED appError
     ELSE appError' = "Failed to extract text from PDF" /\ UNCHANGED <<content, viewControls>>
  /\ UNCHANGED <<variant, file, twinVars, auxVars, hostVars, toHost, inbox, surfVars, histVars,
                 sessVars, ctlVars, theme, fontSize>>

\* handleBack (the Back button of the header).
handleBack ==
  /\ HeaderShown
  /\ content' = "null"
  /\ appError' = "null"
  /\ UNCHANGED <<variant, file, twinVars, auxVars, hostVars, toHost, inbox, surfVars, histVars,
                 sessVars, ctlVars, appLoading, theme, fontSize, viewControls, extracting>>

\* onClick of a theme button: onThemeChange(btn.value).
onThemeChange(t) ==
  /\ HeaderShown
  /\ theme' = t
  /\ UNCHANGED <<variant, file, twinVars, auxVars, hostVars, toHost, inbox, surfVars, histVars,
                 sessVars, ctlVars, content, appLoading, appError, fontSize, viewControls,
                 extracting>>

\* increaseFontSize with the test fontSize <= 28.
increaseFontSize_OffByOne ==
  /\ HeaderShown
  /\ fontSize' = IF fontSize <= 28 THEN fontSize + 2 ELSE fontSize
  /\ UNCHANGED <<variant, file, twinVars, auxVars, hostVars, toHost, inbox, surfVars, histVars,
                 sessVars, ctlVars, content, appLoading, appError, theme, viewControls,
                 extracting>>

\* increaseFontSize: if (fontSize < 28) onFontSizeChange(fontSize + 2)
increaseFontSize ==
  /\ HeaderShown
  /\ fontSize' = IF fontSize < 28 THEN fontSize + 2 ELSE fontSize
  /\ UNCHANGED <<variant, file, twinVars, auxVars, hostVars, toHost, inbox, surfVars, histVars,
                 sessVars, ctlVars, content, appLoading, appError, theme, viewControls,
                 extracting>>

\* decreaseFontSize: if (fontSize > 14) onFontSizeChange(fontSize - 2)
decreaseFontSize ==
  /\ HeaderShown
  /\ fontSize' = IF fontSize > 14 THEN fontSize - 2 ELSE fontSize
  /\ UNCHANGED <<variant, file, twinVars, auxVars, hostVars, toHost, inbox, surfVars, histVars,
                 sessVars, ctlVars, content, appLoading, appError, theme, viewControls,
                 extracting>>

\* onClick of <main>: setControlsVisible(!controlsVisible)
MainClick ==
  /\ ReaderShown
  /\ viewControls' = ~viewControls
  /\ UNCHANGED <<variant, file, twinVars, auxVars, hostVars, toHost, inbox, surfVars, histVars,
                 sessVars, ctlVars, content, appLoading, appError, theme, fontSize,
                 extracting>>

\* ------------------------------------------------------------------- Next
Next ==
  \/ loadPdfFile
  \/ ScriptRun
  \/ WindowMessage
  \/ DocumentMessage
  \/ \E i \in 1..Len(loops) : DecodeReturn(i)
  \/ \E i \in 1..Len(loops) : PageOpened(i)
  \/ \E i \in 1..Len(loops) : PageRendered(i)
  \/ \E y \in 0..MaxScroll : UserScroll(y)
  \/ handleWebViewMessage
  \/ handleMessage
  \/ handleMessageWeb
  \/ handleWebViewLoad
  \/ LoadTimerFire

Spec == Init /\ [][Next]_vars

\* The pipeline under fairness: every awaited read, decode, page and
\* rasterization settles, the page's script runs, every posted message is
\* dispatched to its listener, and every timer that is armed fires (the
\* event loops of the host and of the page run what is queued).  The user's
\* scrolling is not obliged to happen.
Fairness ==
  /\ WF_vars(loadPdfFile)
  /\ WF_vars(ScriptRun)
  /\ WF_vars(WindowMessage \/ DocumentMessage)
  /\ WF_vars(\E i \in 1..Len(loops) : DecodeReturn(i))
  /\ WF_vars(\E i \in 1..Len(loops) : PageOpened(i))
  /\ WF_vars(\E i \in 1..Len(loops) : PageRendered(i))
  /\ WF_vars(handleWebViewMessage)
  /\ WF_vars(handleMessage)
  /\ WF_vars(handleMessageWeb)
  /\ WF_vars(handleWebViewLoad)
  /\ WF_vars(LoadTimerFire)

SpecLive == Init /\ [][Next]_vars /\ Fairness

\* The pipeline with a theme change of the system while the reader is open.
NextTheme ==
  \/ Next
  \/ ThemeChange

SpecTheme == Init /\ [][NextTheme]_vars

\* The reader session from opening to unmounting, on a document with any
\* stored lastReadPage (a page of the document, if the document can be
\* decoded) and pages of height 1.  No time passes (no timer becomes due);
\* the 500 ms load timer of the push variant takes no part.
InitSession ==
  /\ \E n \in 0..MaxPages : Opened([lastReadPage |-> n, pageCount |-> 1])
  /\ bridge
  /\ \A k \in 1..Len(file.heights) : file.heights[k] = 1
  /\ file.decodable => document.lastReadPage <= Len(file.heights)

NextSession ==
  \/ loadPdfFile
  \/ ScriptRun
  \/ WindowMessage
  \/ DocumentMessage
  \/ \E i \in 1..Len(loops) : DecodeReturn(i)
  \/ \E i \in 1..Len(loops) : PageOpened(i)
  \/ \E i \in 1..Len(loops) : PageRendered(i)
  \/ \E y \in 0..MaxScroll : UserScroll(y)
  \/ Click
  \/ handleWebViewMessage
  \/ handleMessage
  \/ handleMessageWeb
  \/ handleGoBack
  \/ SystemBack
  \/ Unmount

SpecSession == InitSession /\ [][NextSession]_vars

\* The chrome in real time, on a one-page document that renders or a file
\* that cannot be read: the pipeline runs untimed, taps, the system back
\* and the unmount come at any time.
InitControls ==
  /\ Init
  /\ \/ file.kind \in {"throw", "empty"}
     \/ file = [kind |-> "data", decodable |-> TRUE, heights |-> <<1>>, badPage |-> 0]

NextControls ==
  \/ loadPdfFile
  \/ ScriptRun
  \/ WindowMessage
  \/ DocumentMessage
  \/ \E i \in 1..Len(loops) : DecodeReturn(i)
  \/ \E i \in 1..Len(loops) : PageOpened(i)
  \/ \E i \in 1..Len(loops) : PageRendered(i)
  \/ handleWebViewMessage
  \/ handleMessage
  \/ handleMessageWeb
  \/ handleWebViewLoad
  \/ LoadTimerFire
  \/ Click
  \/ \E i \in 0..Len(orphans) : TimerFire(i)
  \/ Tick
  \/ SystemBack
  \/ Unmount

SpecControls == InitControls /\ [][NextControls]_vars

\* The channel between the surface and the host: the page may run without
\* the bridge object (the web viewer's iframe always has its parent), and
\* messages that are not events of the surface arrive at the host.  Pages
\* are of height 1.
InitChannel ==
  /\ Opened(NewDoc)
  /\ variant = "web" => bridge
  /\ \A k \in 1..Len(file.heights) : file.heights[k] = 1

NextChannel ==
  \/ Next
  \/ \E t \in ForeignTypes : ForeignMessage(t)

SpecChannel == InitChannel /\ [][NextChannel]_vars

\* The web app: file selections, extractions that succeed or fail, and
\* the controls of ReaderView.  The reader screen of the mobile app takes
\* no part.
InitWeb ==
  /\ Init
  /\ variant = "web"
  /\ file.kind = "throw"

NextWeb ==
  \/ handleFileSelect
  \/ \E ok \in BOOLEAN : ExtractReturn(ok)
  \/ handleBack
  \/ \E t \in Themes : onThemeChange(t)
  \/ increaseFontSize
  \/ decreaseFontSize
  \/ MainClick

SpecWeb == InitWeb /\ [][NextWeb]_vars

\* The two scroll handlers on every boundary list and every starting page,
\* under every sequence of scroll positions.  The reader screen takes no
\* part.
InitScroll ==
  /\ ReaderOpened(NewDoc)
  /\ bridge
  /\ variant = "push"
  /\ file.kind = "throw"
  /\ twinOffsets \in TwinLists
  /\ \E p \in 1..MaxPages : twinPush = TwinStart(p) /\ twinEmbedded = TwinStart(p)

NextScroll == \E y \in 0..MaxScroll : TwinScroll(y)

SpecScroll == InitScroll /\ [][NextScroll]_vars

TypeOK ==
  /\ variant \in Variants
  /\ loading \in BOOLEAN
  /\ inbox \in 0..2
  /\ Len(loops) <= 2
  /\ scrollY \in 0..MaxScroll

\* ------------------------------------------------------------------ claims
\* The events the surface sent in the step, oldest first (the surface only
\* appends to toHost, the host only removes from it).
NewEvents ==
  IF Len(toHost') > Len(toHost)
  THEN SubSeq(toHost', Len(toHost) + 1, Len(toHost'))
  ELSE <<>>

IsLoaded(m)   == m.type \in {"pdfLoaded", "loaded"}
IsRendered(m) == m.type \in {"renderComplete", "rendered"}
IsPage(m)     == m.type \in {"pageChange", "page"}

\* A step in which the scroll handler runs: a scroll event with the listener
\* attached, or the direct call of handleScroll() at the end of loadPDF.
HandlerRun ==
  \/ scrollListener /\ loops' = loops /\ UserScroll(scrollY')
  \/ /\ variant = "push"
     /\ \E i \in 1..Len(loops) :
          loops[i].pc = "render" /\ loops'[i].pc = "done" /\ PageRendered(i)

ValidDocument == file.kind = "data" /\ file.decodable /\ file.badPage = 0

\* Nothing of the session is still running or in flight on the surface side.
Quiescent ==
  /\ hostPc = "settled"
  /\ surface = "running"
  /\ loops # <<>>
  /\ \A i \in 1..Len(loops) : ~Active(loops[i])
  /\ inbox = 0
  /\ loadTimer \in {"done", "skipped"} \/ variant # "push"
  /\ \A j \in 1..Len(toHost) : toHost[j].type # "ready"

\* C1: for a valid document of N pages the surface emits exactly one
\* loaded{totalPages = N} event and exactly one rendered event in a session,
\* loaded before rendered: never more than one of each, rendered never
\* without loaded before it, and both present once the session has come to
\* rest.
C1_OneLoadedOneRendered ==
  ValidDocument =>
    LET L == { j \in 1..Len(emitted) : IsLoaded(emitted[j]) }
        R == { j \in 1..Len(emitted) : IsRendered(emitted[j]) }
    IN /\ Cardinality(L) <= 1
       /\ Cardinality(R) <= 1
       /\ \A j \in L : emitted[j].total = numPages
       /\ \A r \in R : \E l \in L : l < r
       /\ Quiescent => Cardinality(L) = 1 /\ Cardinality(R) = 1

\* C2: pages are rendered one at a time and in order: at most one render
\* loop is active in a surface, and while a loop opens or rasterizes page p
\* every page before p has been recorded and no loop works on another page.
C2_OneLoopInOrder ==
  LET A == { i \in 1..Len(loops) : Active(loops[i]) }
      P == { i \in 1..Len(loops) : loops[i].pc \in {"getPage", "render"} }
  IN /\ Cardinality(A) <= 1
     /\ \A i \in P :
          /\ \A q \in 1..(loops[i].pageNum - 1) :
               \E j \in 1..Len(pageOffsets) : pageOffsets[j].pageNum = q
          /\ \A k \in P : loops[k].pageNum = loops[i].pageNum

\* C3: pageOffsets holds the entries of pages 1..k in page order, each page
\* once, entry j's bottom is at most entry j+1's top, and a step only ever
\* appends to it.
C3_BoundariesInPageOrder ==
  /\ [](/\ \A j \in 1..Len(pageOffsets) : pageOffsets[j].pageNum = j
        /\ \A j \in 1..(Len(pageOffsets) - 1) :
             pageOffsets[j].bottom <= pageOffsets[j + 1].top)
  /\ [][/\ Len(pageOffsets') >= Len(pageOffsets)
        /\ SubSeq(pageOffsets', 1, Len(pageOffsets)) = pageOffsets]_vars

\* C4: scroll tracking starts only after the session is Ready: the handler
\* never runs and no page-change event is sent before `rendered` has been
\* sent, and pageOffsets never grows once the handler has run.
C4_TrackingOnlyAfterReady ==
  /\ []((tracked \/ lastNotified # 0) => \E j \in 1..Len(emitted) : IsRendered(emitted[j]))
  /\ [][tracked => pageOffsets' = pageOffsets]_vars

C6_NoMatchKeepsPage ==
  [][HandlerRun =>
       LET p2 == 2 * scrollY' + InnerHeight
           offs == pageOffsets'
           In(j) == 2 * offs[j].top <= p2 /\ p2 < 2 * offs[j].bottom
       IN (\A j \in 1..Len(offs) : ~In(j)) =>
            /\ currentVisiblePage' = currentVisiblePage
            /\ lastNotified' = lastNotified
            /\ \A k \in 1..Len(NewEvents) :
                 ~IsPage(NewEvents[k]) /\ NewEvents[k].type # "error"
    ]_vars

\* The handler has run with the probe point outside every recorded page
\* while page 2 was current, and page 2 is still current.
C6_Witness ==
  /\ tracked /\ lastProbe = scrollY
  /\ pageOffsets # <<>>
  /\ \A j \in 1..Len(pageOffsets) :
       ~(/\ 2 * pageOffsets[j].top <= 2 * scrollY + InnerHeight
         /\ 2 * scrollY + InnerHeight < 2 * pageOffsets[j].bottom)
  /\ currentVisiblePage = 2
  /\ lastNotified = 2

C8_MonotoneOnFixedList ==
  [][(HandlerRun /\ lastProbe >= 0 /\ pageOffsets' = pageOffsets /\ monotone') =>
       /\ currentVisiblePage' >= currentVisiblePage
       /\ scrollY' = lastProbe => SelectSeq(NewEvents, IsPage) = <<>>
    ]_vars

\* C9: when the read returns a zero-length result, the host ends with the
\* error set and the error view shown, and pdfjsLib.getDocument is never
\* called.
C9_EmptyFetchFails ==
  (file.kind = "empty" /\ hostPc = "settled") =>
    /\ error # "null"
    /\ ~loading
    /\ decodes = 0

\* C10: once a render loop has failed to decode or rasterize, no page is
\* appended or recorded and no loaded, rendered or page-change event is
\* sent any more, and the host's error, once set, never changes.
C10_FailureAborts ==
  /\ [][(\E i \in 1..Len(loops) : loops[i].pc = "failed") =>
          /\ pageOffsets' = pageOffsets
          /\ container' = container
          /\ \A k \in 1..Len(NewEvents) :
               ~IsLoaded(NewEvents[k]) /\ ~IsRendered(NewEvents[k]) /\ ~IsPage(NewEvents[k])
       ]_vars
  /\ [][error # "null" => error' = error]_vars

\* C11: every fetch, decode or render failure reaches the host as a tagged
\* error whose message is the failure's reason: once the read has thrown the
\* host's error is the read's message, once the read has returned nothing
\* the host's error is set, and every error event the surface has sent is
\* either still on its way or is the host's error.
C11_FailuresReachHost ==
  /\ (hostPc = "settled" /\ file.kind = "throw") => error = ReadFailure
  /\ (hostPc = "settled" /\ file.kind = "empty") => error # "null"
  /\ \A j \in 1..Len(emitted) :
       emitted[j].type = "error" =>
         \/ error = emitted[j].message
         \/ \E k \in 1..Len(toHost) : toHost[k] = emitted[j]

\* The status of the session as a rank along Idle, FetchingBytes (1),
\* Decoding (2), Rendering(p, N) (2 + p), Ready, Failed: the position of the
\* render loop started last, Failed once a loop has failed or the host's
\* error is set.
SessionRank ==
  IF error # "null" \/ \E i \in 1..Len(loops) : loops[i].pc = "failed"
  THEN MaxPages + 4
  ELSE IF hostPc = "fetching" \/ loops = <<>>
  THEN 1
  ELSE LET l == loops[Len(loops)] IN
         IF l.pc = "decode" THEN 2
         ELSE IF l.pc = "done" THEN MaxPages + 3
         ELSE 2 + l.pageNum

\* C12: the session status only moves forward and never returns to an
\* earlier state, and the decode/render loop is entered at most once in a
\* reader session, also after a repeated load message or a theme change.
C12_StatusOnlyForward ==
  /\ [](decodes <= 1 /\ Len(loops) <= 1)
  /\ [][SessionRank' >= SessionRank]_vars

\* C13: between loaded and rendered the surface sends the host exactly N
\* progress notifications, one per page, with strictly increasing page
\* index.
C13_ProgressPerPage ==
  ValidDocument =>
    \A r \in 1..Len(emitted) :
      IsRendered(emitted[r]) =>
        LET P == { j \in 1..(r - 1) : emitted[j].type = "progress" } IN
          /\ Cardinality(P) = numPages
          /\ \A j \in P : \E l \in 1..(j - 1) : IsLoaded(emitted[l])
          /\ \A j, k \in P : j < k => emitted[j].page < emitted[k].page

\* C14: every way of leaving the reader writes {document.id, currentPage}
\* to the store exactly once, and the page written is the host's current
\* page (the page of the last page-change event it handled, the initial
\* page if none): never two writes, and after the screen is gone exactly
\* one, of that page.
C14_PersistExactlyOnce ==
  /\ writes <= 1
  /\ nav = "left" => (writes = 1 /\ store = currentPage)

\* A step in which the host handles an event of the surface.
HostHandles == nav' = nav /\ toHost # <<>> /\ Len(toHost') < Len(toHost)

\* C15: handling a page-change, loaded, rendered, tap or error event never
\* writes the store, and as long as the reader has not been left the
\* stored lastReadPage is the one the reader was opened with.
C15_EventsNeverPersist ==
  [][/\ HostHandles => (store' = store /\ writes' = writes)
     /\ nav' = "open" => (store' = document.lastReadPage /\ writes' = 0)
    ]_vars

\* On a new document the host has handled rendered, a page-change to page 2
\* and a tap; the reader is still open and the store still holds 0.
C15_Witness ==
  /\ nav = "open"
  /\ document.lastReadPage = 0
  /\ ~loading
  /\ currentPage = 2
  /\ controlsOpacity = 0
  /\ store = 0
  /\ writes = 0

\* C16: when the read returns nothing, the error view with its Go Back
\* action is shown, and after the reader was left through that action the
\* stored lastReadPage is what it was when the reader was opened.
C16_EmptyFetchKeepsProgress ==
  file.kind = "empty" =>
    /\ hostPc = "settled" => error # "null"
    /\ (nav = "left" /\ writes > 0) => store = document.lastReadPage

C18_AtMostOneHideTimer == Cardinality(PendingTimers) <= 1

\* C19: whenever the chrome is shown, every hide scheduled before is
\* cancelled and exactly one new auto-hide is scheduled; and the chrome
\* starts to hide without a tap only when that auto-hide is due, a full
\* idle period after it was shown.
C19_ShowReschedules ==
  [][/\ (~controlsVisible /\ controlsVisible') =>
          (orphans' = <<>> /\ hideControlsTimeout' = Timer("auto", HideDelay))
     /\ (controlsOpacity = 1 /\ controlsOpacity' = 0 /\ toHost' = toHost) =>
          (hideControlsTimeout.kind = "auto" /\ hideControlsTimeout.left <= 0)
    ]_vars

\* C20: the chrome is removed from the layout (controlsVisible becomes
\* false) only after a fade-out has been started and has run to its end.
C20_RemovalAfterFade ==
  [][(controlsVisible /\ ~controlsVisible') => (controlsOpacity = 0 /\ fadeLeft = 0)]_vars

\* A step in which the host's listener is handed a message that cannot be
\* parsed, has no type or has an unknown type.
HandlesForeign ==
  /\ toHost # <<>>
  /\ Head(toHost).type \in ForeignTypes
  /\ toHost' = Tail(toHost)
  /\ nav' = nav

\* C21: a message that cannot be parsed, carries no type or carries an
\* unknown type is dropped by the host's listener in every variant: no host
\* state variable changes, nothing is posted to the surface, and no
\* exception leaves the listener.
C21_MalformedDropped ==
  [][HandlesForeign =>
       /\ UNCHANGED <<hostVars, inbox, surface, storeVars, ctlVars>>
       /\ escaped' = escaped
    ]_vars

\* C22: in the push variant the host posts loadPdf to the surface only
\* after it has received the surface's ready event: whenever a loadPdf is
\* posted, ready has been sent and is no longer on its way.
C22_PushAfterReady ==
  [][(variant = "push" /\ inbox' > inbox) =>
       /\ \E j \in 1..Len(emitted) : emitted[j].type = "ready"
       /\ \A k \in 1..Len(toHost') : toHost'[k].type # "ready"
    ]_vars

\* C23: the read of the document's bytes is started exactly once per
\* session, at the mount of the reader, and never again: not after it has
\* failed or returned nothing, and once loadPdfFile has settled it stays
\* settled.
C23_FetchOnce ==
  /\ [](reads = 1)
  /\ [][hostPc = "settled" => hostPc' = "settled"]_vars

\* The read has failed, the error view was shown and the reader was left
\* through it: one read was started.
C23_Witness ==
  /\ file.kind = "throw"
  /\ hostPc = "settled"
  /\ error = ReadFailure
  /\ nav = "left"
  /\ reads = 1

\* A step in which the host handles a tap event.
HandlesTap ==
  /\ toHost # <<>>
  /\ Head(toHost).type = "tap"
  /\ toHost' = Tail(toHost)
  /\ nav' = nav

\* C24: each tap event toggles the chrome's commanded visibility: a tap
\* when the last command was show starts a fade-out, and a tap when the
\* last command was hide, also while that hide is still fading, shows the
\* chrome and arms the auto-hide.
C24_TapToggles ==
  [][HandlesTap =>
       IF controlsOpacity = 1
       THEN controlsOpacity' = 0 /\ fadeLeft' = FadeDuration
       ELSE /\ controlsOpacity' = 1
            /\ controlsVisible'
            /\ hideControlsTimeout' = Timer("auto", HideDelay)
    ]_vars

\* C25: an event whose send fails is not dropped silently while the
\* session goes on: when the page has no bridge object, so that every send
\* of the surface has failed, and the session has come to rest, the host
\* shows an error.
C25_SendFailureSurfaced ==
  (~BridgeUp /\ Quiescent /\ toHost = <<>>) => error # "null"

\* C26: in the web reader the font size starts at 18 and stays within
\* 14..28 px for every sequence of increase and decrease clicks; a click
\* that is accepted changes it by exactly 2, and a click at a bound leaves
\* it unchanged.
C26_FontSizeBounded ==
  /\ [](fontSize \in 14..28 /\ fontSize % 2 = 0)
  /\ [][fontSize' # fontSize => (fontSize' - fontSize \in {-2, 2})]_vars
  /\ [][(fontSize = 28 => fontSize' <= fontSize) /\ (fontSize = 14 => fontSize' >= fontSize)]_vars

\* Five increases have been accepted and the increase button can still be
\* clicked: the size is at its upper bound.
C26_Witness ==
  /\ HeaderShown
  /\ fontSize = 28

\* C27: under fairness every reader session eventually clears the host's
\* loading flag, whatever the read returns (bytes, nothing, an exception)
\* and wherever the decoding or the rendering fails.
C27_LoadingEventuallyCleared == <>(~loading)

\* C28: the host's loading flag is true from the start of the session and
\* becomes false only when the host handles the rendered event or an error
\* is set; it is never set again, and while it is false with no error no
\* page is still being decoded or rendered.
C28_LoadingUntilRendered ==
  /\ [][(loading /\ ~loading') =>
          \/ error' # "null"
          \/ toHost # <<>> /\ IsRendered(Head(toHost))]_vars
  /\ [][~loading => ~loading']_vars
  /\ []((~loading /\ error = "null") => \A i \in 1..Len(loops) : ~Active(loops[i]))

\* The session is Ready and nothing is on its way: every render loop has
\* ended with `rendered`, and the host has handled every event sent.
ReadyAndDelivered ==
  /\ surface = "running"
  /\ error = "null"
  /\ loops # <<>>
  /\ \A i \in 1..Len(loops) : loops[i].pc = "done"
  /\ inbox = 0
  /\ toHost = <<>>

\* C29: once the session is Ready and every notification sent has been
\* handled, the page the host holds and displays is the tracker's current
\* page, for every stored lastReadPage and every sequence of scrolls.
C29_HostPageIsTrackerPage ==
  ReadyAndDelivered => currentPage = currentVisiblePage

\* C30: in every host state of the reader 1 <= currentPage <= totalPages,
\* for every stored document the reader is opened with, before and after
\* the loaded event.
C30_PageWithinTotal ==
  1 <= currentPage /\ currentPage <= totalPages

\* C31: whenever controlsVisible is false the last commanded opacity target
\* is 0: the chrome is never out of the layout after it has been commanded
\* to show again, for every sequence of taps and timer firings.
C31_HiddenMeansTargetZero ==
  ~controlsVisible => controlsOpacity = 0

\* No two entries of the list share a point: for entries i # j one ends
\* where or before the other begins.
NonOverlapping(offs) ==
  \A i, j \in 1..Len(offs) :
    i # j => (offs[i].bottom <= offs[j].top \/ offs[j].bottom <= offs[i].top)

\* C32: on every list of non-overlapping boundaries, from every starting
\* page and after every sequence of probe points, the scroll handler of the
\* push variant and the scroll listener of the embedded variants have the
\* same current page and have sent the same sequence of page-change
\* messages.
C32_HandlersEquivalent ==
  NonOverlapping(twinOffsets) => twinPush = twinEmbedded

\* On a list of two adjacent pages both handlers have gone to page 2 and
\* back to page 1, each with one message per change.
C32_Witness ==
  /\ Len(twinOffsets) = 2
  /\ NonOverlapping(twinOffsets)
  /\ twinPush.sent = <<2, 1>>
  /\ twinEmbedded.sent = <<2, 1>>

\* C33: in the web app, whenever no extraction is in flight loading is
\* false and content and error are not both set; an extraction that fails
\* sets error and leaves content null, one that succeeds sets content and
\* leaves error null, and Back clears both.
C33_ContentXorError ==
  /\ [](~extracting => (~appLoading /\ ~(content # "null" /\ appError # "null")))
  /\ [][(extracting /\ ~extracting') =>
          \/ content' # "null" /\ appError' = "null"
          \/ content' = "null" /\ appError' # "null"]_vars
  /\ [][(content # "null" /\ content' = "null") => appError' = "null"]_vars

\* An extraction has succeeded (the theme was changed in the reader), Back
\* was pressed, and the next extraction has failed: the upload view shows
\* the error.
C33_Witness ==
  /\ theme = "dark"
  /\ ~extracting
  /\ content = "null"
  /\ appError # "null"

\* C34: the progress percentage the library card shows for the stored
\* document, round(lastReadPage / pageCount * 100), is within 0..100 after
\* every sequence of opening, scrolling and going back.
C34_CardProgressWithin100 ==
  0 <= progress(StoredDocument) /\ progress(StoredDocument) <= 100

====
